---- MODULE Spec2Model ----
(***************************************************************************)
(* MyApp-CLI: the project scaffolding workflow of main.go (the "main"      *)
(* variant, fixed webapps parent directory) and of the earlier revision    *)
(* with the --skip-setup flag (the "simple" variant, parent = working      *)
(* directory).  Text is modelled as sequences of one-character strings,    *)
(* file contents as sequences of chunks, directories as sequences of       *)
(* path components below the root.                                         *)
(***************************************************************************)
EXTENDS Integers, Sequences, FiniteSets, TLC

VARIABLES
    variant,      \* "main" (main.go) or "simple" (revision with --skip-setup)
    isWindows,    \* CommandRunner.isWindows, runtime.GOOS == "windows"
    skipSetup,    \* the --skip-setup flag (simple variant only)
    pc,           \* position of the single thread of main
    cwd,          \* process working directory (absolute, as components)
    dirs,         \* directories that exist
    files,        \* regular files that exist: <<dir, file name>> -> content
    line,         \* promptProjectName: the line ReadString returned
    name,         \* promptProjectName: the name the last turn rejected
    output,       \* message printed by the last turn of the prompt loop
    turns,        \* promptProjectName: prompts shown by the running call
    blankSeen,    \* promptProjectName: a line rejected so far was blank
    projectName,  \* value returned by promptProjectName
    projectPath,  \* createProject (simple variant): result of filepath.Abs
    packageJSON,  \* buffer read from package.json by createProject
    err,          \* error returned by checkPrerequisites / createProject
    fatalMsg,     \* prefix of the log.Fatalf message of main
    setupRan,     \* result of checkSetupScript
    ops           \* commands spawned and file-system calls made, in order

vars == <<variant, isWindows, skipSetup, pc, cwd, dirs, files, line, name,
          output, turns, blankSeen, projectName, projectPath, packageJSON,
          err, fatalMsg, setupRan, ops>>

(***************************** bounds **************************************)
MaxPrompts == 3
MaxLineLen == 2
MaxManifestLen == 4
MaxEnvLen == 3

(*************************** program constants *****************************)
defaultProjectName == <<"m","y","-","n","e","w","-","a","p","p">>
projectsDir ==
    <<"C",":","\\","U","s","e","r","s","\\","a","n","d","r","e","\\",
      "N","e","x","t","J","S","-","P","r","o","j","e","c","t","s">>
webappsDir == <<"w","e","b","a","p","p","s">>
repoURL == "https://github.com/AndrewDonelson/my-app"
\* the character set with its last character forgotten
invalidChars_noPipe == {"\\", "/", ":", "*", "?", "\"", "<", ">"}

invalidChars == {"\\", "/", ":", "*", "?", "\"", "<", ">", "|"}

\* the two chunks of the predev line that strings.Replace looks for, and
\* the two chunks it puts in its place
predevKey == "\"predev\": "
oldPredev == <<predevKey,
    "\"npx convex dev --until-success && node setup.mjs --once && npx convex dashboard\"">>
newPredev == <<predevKey, "\"echo Skipping predev script for initial setup\"">>
setupMarker == <<"SETUP_SCRIPT_RAN=", "1">>

dotGit == <<".","g","i","t">>
nodeModules == <<"n","o","d","e","_","m","o","d","u","l","e","s">>

NoFile == <<"<absent>">>

(****************************** input sets *********************************)
Chars == {" ", "a", "/", "|"}
ManifestChunks == {oldPredev[1], oldPredev[2], "other"}
EnvChunks == {setupMarker[1], setupMarker[2], "\n"}

SeqsUpTo(S, n) == UNION {[1..k -> S] : k \in 0..n}
Lines == SeqsUpTo(Chars, MaxLineLen)
Manifests == SeqsUpTo(ManifestChunks, MaxManifestLen)
EnvFiles == SeqsUpTo(EnvChunks, MaxEnvLen)

(*************************** package strings *******************************)
IsSpace(c) == c \in {" ", "\t", "\n", "\r"}

RECURSIVE TrimLeft(_)
TrimLeft(s) ==
    IF s # <<>> /\ IsSpace(Head(s)) THEN TrimLeft(Tail(s)) ELSE s

RECURSIVE TrimRight(_)
TrimRight(s) ==
    IF s # <<>> /\ IsSpace(s[Len(s)])
    THEN TrimRight(SubSeq(s, 1, Len(s) - 1)) ELSE s

TrimSpace(s) == TrimRight(TrimLeft(s))

ContainsAny(s, chars) == \E i \in 1..Len(s) : s[i] \in chars

HasPrefix(s, p) == Len(s) >= Len(p) /\ SubSeq(s, 1, Len(p)) = p

\* strings.Index: position of the first occurrence of sub in s, scanning
\* from position i; 0 when there is none
RECURSIVE IndexFrom(_, _, _)
IndexFrom(s, sub, i) ==
    IF i + Len(sub) - 1 > Len(s) THEN 0
    ELSE IF HasPrefix(SubSeq(s, i, Len(s)), sub) THEN i
    ELSE IndexFrom(s, sub, i + 1)

Index(s, sub) == IndexFrom(s, sub, 1)

Contains(s, sub) == Index(s, sub) # 0

\* strings.Replace with n = -1: every occurrence
RECURSIVE Replace_all(_, _, _)
Replace_all(s, old, new) ==
    LET i == Index(s, old) IN
    IF i = 0 THEN s
    ELSE SubSeq(s, 1, i - 1) \o new
            \o Replace_all(SubSeq(s, i + Len(old), Len(s)), old, new)

\* strings.Replace(s, old, new, 1)
Replace(s, old, new) ==
    LET i == Index(s, old) IN
    IF i = 0 THEN s
    ELSE SubSeq(s, 1, i - 1) \o new \o SubSeq(s, i + Len(old), Len(s))

\* bufio.Scanner with the default ScanLines split function
RECURSIVE ScanLines(_, _)
ScanLines(s, cur) ==
    IF s = <<>> THEN (IF cur = <<>> THEN <<>> ELSE <<cur>>)
    ELSE IF Head(s) = "\n" THEN <<cur>> \o ScanLines(Tail(s), <<>>)
    ELSE ScanLines(Tail(s), Append(cur, Head(s)))

(************************** package path/filepath **************************)
IsSep(c) == c = "/" \/ (isWindows /\ c = "\\")

Separator == IF isWindows THEN "\\" ELSE "/"

\* components of a path string; empty components vanish as in Clean
RECURSIVE Comps(_, _)
Comps(s, cur) ==
    IF s = <<>> THEN (IF cur = <<>> THEN <<>> ELSE <<cur>>)
    ELSE IF IsSep(Head(s))
         THEN (IF cur = <<>> THEN <<>> ELSE <<cur>>) \o Comps(Tail(s), <<>>)
         ELSE Comps(Tail(s), Append(cur, Head(s)))

\* filepath.Join: the non-empty elements separated by Separator
RECURSIVE Join(_)
Join(elems) ==
    IF elems = <<>> THEN <<>>
    ELSE IF Head(elems) = <<>> THEN Join(Tail(elems))
    ELSE LET rest == Join(Tail(elems)) IN
         IF rest = <<>> THEN Head(elems)
         ELSE Head(elems) \o <<Separator>> \o rest

IsAbs(s) ==
    IF isWindows
    THEN Len(s) >= 3 /\ s[2] = ":" /\ IsSep(s[3])
    ELSE Len(s) >= 1 /\ s[1] = "/"

\* filepath.Abs, and the way the operating system resolves a path string
\* against working directory wd
Abs(wd, s) ==
    IF IsAbs(s) THEN Comps(s, <<>>)
    ELSE IF isWindows /\ s # <<>> /\ IsSep(s[1])
         THEN <<wd[1]>> \o Comps(s, <<>>)
         ELSE wd \o Comps(s, <<>>)

Prefixes(p) == {SubSeq(p, 1, k) : k \in 0..Len(p)}

IsUnder(p, d) == Len(p) >= Len(d) /\ SubSeq(p, 1, Len(d)) = d

(******************************* file system *******************************)
FileContent(d, n) == IF <<d, n>> \in DOMAIN files THEN files[<<d, n>>] ELSE NoFile

WriteTo(f, key, c) == [k \in DOMAIN f \cup {key} |-> IF k = key THEN c ELSE f[k]]

RemoveKeys(f, K) == [k \in DOMAIN f \ K |-> f[k]]

\* errors os.Stat can return for path p: nil when it exists; otherwise
\* "not exist", or some other error (permission, I/O)
StatErrs(p) == IF p \in dirs THEN {"nil"} ELSE {"ENOENT", "EACCES"}

IsNotExist(e) == e = "ENOENT"

\* what a failed os.WriteFile can leave behind: the file untouched (open
\* failed) or truncated to a proper prefix of the data
PartialWrites(old, data) ==
    {old} \cup {SubSeq(data, 1, k) : k \in 0..(Len(data) - 1)}

(***************************** log of effects ******************************)
\* a command run by execCommand in the working directory
Exec(cmd, args, ok) ==
    [call |-> "exec", cmd |-> cmd, args |-> args, path |-> cwd, ok |-> ok]

\* a call of package os on the (resolved) path
Sys(call, path, ok) ==
    [call |-> call, cmd |-> "", args |-> <<>>, path |-> path, ok |-> ok]

(**************************** CommandRunner ********************************)
getNPMCommand == IF isWindows THEN "npm.cmd" ELSE "npm"

getGHCommand == IF isWindows THEN "gh.exe" ELSE "gh"

(******************************* paths *************************************)
fullWebappsPath == Join(<<projectsDir, webappsDir>>)

ProjectPathMain(n) == Join(<<projectsDir, webappsDir, n>>)

\* the directory a project name is created in by the variant at hand, seen
\* from working directory wd
TargetDir(wd, n) ==
    IF variant = "main" THEN Abs(wd, ProjectPathMain(n)) ELSE Abs(wd, n)

(******************************** Init *************************************)
WorkDirs(win) ==
    LET base == IF win THEN << <<"C", ":">>, <<"w">> >> ELSE << <<"w">> >>
    IN  {base, base \o << <<"s">> >>}

PreExisting == SUBSET {defaultProjectName, <<"a">>}

Init ==
    /\ variant \in {"main", "simple"}
    /\ isWindows \in BOOLEAN
    /\ skipSetup \in (IF variant = "simple" THEN BOOLEAN ELSE {FALSE})
    /\ pc = "check_git"
    /\ cwd \in WorkDirs(isWindows)
    /\ \E E \in PreExisting :
          dirs = Prefixes(cwd)
                   \cup UNION {Prefixes(TargetDir(cwd, e)) : e \in E}
    /\ files = [k \in {} |-> <<>>]
    /\ line = <<>>
    /\ name = <<>>
    /\ output = ""
    /\ turns = 0
    /\ blankSeen = FALSE
    /\ projectName = <<>>
    /\ projectPath = <<>>
    /\ packageJSON = <<>>
    /\ err = ""
    /\ fatalMsg = ""
    /\ setupRan = "unset"
    /\ ops = <<>>

(************************** checkPrerequisites *****************************)
\* main without its skip-setup branch
AfterPrerequisites_noSkip == IF variant = "main" THEN "ensure" ELSE "prompt"

AfterPrerequisites ==
    IF variant = "main" THEN "ensure"
    ELSE IF skipSetup THEN "dev_skip" ELSE "prompt"

Probe(at, cmd, next, msg) ==
    /\ pc = at
    /\ \E ok \in BOOLEAN :
          /\ ops' = Append(ops, Exec(cmd, <<"--version">>, ok))
          /\ IF ok
             THEN /\ pc' = next
                  /\ UNCHANGED <<err, fatalMsg>>
             ELSE /\ pc' = "fatal"
                  /\ err' = msg
                  /\ fatalMsg' = "Prerequisite check failed"
    /\ UNCHANGED <<variant, isWindows, skipSetup, cwd, dirs, files, line, name,
                   output, turns, blankSeen, projectName, projectPath, packageJSON,
                   setupRan>>

CheckGit ==
    Probe("check_git", "git", "check_gh", "git is not installed or not in PATH")

\* the gh probe without its early return
CheckGH_continues ==
    /\ pc = "check_gh"
    /\ \E ok \in BOOLEAN :
          ops' = Append(ops, Exec(getGHCommand, <<"--version">>, ok))
    /\ pc' = "check_npm"
    /\ UNCHANGED <<variant, isWindows, skipSetup, cwd, dirs, files, line, name,
                   output, turns, blankSeen, projectName, projectPath,
                   packageJSON, setupRan, err, fatalMsg>>

CheckGH ==
    Probe("check_gh", getGHCommand, "check_npm",
          "GitHub CLI (gh) is not installed or not in PATH")

CheckNPM ==
    Probe("check_npm", getNPMCommand, AfterPrerequisites,
          "npm is not installed or not in PATH")

(**************************** ensureWebappsDir *****************************)
\* os.MkdirAll(path): succeeds when the directory is there already
MkdirAllOutcomes(p) == IF p \in dirs THEN {TRUE} ELSE BOOLEAN

EnsureWebappsDir(at, next, fatal) ==
    /\ variant = "main"
    /\ pc = at
    /\ LET p == Abs(cwd, fullWebappsPath) IN
       \E ok \in MkdirAllOutcomes(p) :
          /\ ops' = Append(ops, Sys("mkdirall", p, ok))
          /\ IF ok
             THEN /\ dirs' = dirs \cup Prefixes(p)
                  /\ pc' = next
                  /\ UNCHANGED <<err, fatalMsg>>
             ELSE /\ dirs' = dirs
                  /\ pc' = "fatal"
                  /\ err' = "failed to create webapps directory"
                  /\ fatalMsg' = fatal
    /\ UNCHANGED <<variant, isWindows, skipSetup, cwd, files, line, name,
                   output, turns, blankSeen, projectName, projectPath, packageJSON,
                   setupRan>>

MainEnsureWebappsDir ==
    EnsureWebappsDir("ensure", "prompt", "Failed to setup projects directory")

(***************************** isProjectExists *****************************)
\* the answers isProjectExists(n) can give
isProjectExists(n) ==
    {~IsNotExist(e) : e \in StatErrs(Abs(cwd, ProjectPathMain(n)))}

(**************************** promptProjectName ****************************)
IsBlank(data) == TrimSpace(data) = <<>>

AfterPrompt == IF variant = "main" THEN "cp_ensure" ELSE "s_abs"

\* the prompt and reader.ReadString('\n'): text is what was typed, eof says
\* the input ended before a newline came; on that error the default name is
\* returned at once.  The locals of a finished turn or call are dropped.
PromptRead ==
    /\ pc = "prompt"
    /\ turns < MaxPrompts
    /\ \E text \in Lines, eof \in BOOLEAN :
          /\ name' = <<>>
          /\ output' = ""
          /\ IF eof
             THEN /\ line' = <<>>
                  /\ projectName' = defaultProjectName
                  /\ blankSeen' = FALSE
                  /\ turns' = 0
                  /\ pc' = AfterPrompt
             ELSE /\ line' = text \o <<"\n">>
                  /\ turns' = turns + 1
                  /\ pc' = "prompt_check"
                  /\ UNCHANGED <<projectName, blankSeen>>
    /\ UNCHANGED <<variant, isWindows, skipSetup, cwd, dirs, files,
                   projectPath, packageJSON, err, fatalMsg, setupRan, ops>>

\* TrimSpace without the fallback to the default name
ResolveName_noDefault(data) == TrimSpace(data)

\* TrimSpace and the fallback to the default name
ResolveName(data) ==
    LET trimmed == TrimSpace(data) IN
    IF trimmed = <<>> THEN defaultProjectName ELSE trimmed

\* the rest of one turn of the loop of promptProjectName in main.go
PromptValidate ==
    /\ variant = "main"
    /\ pc = "prompt_check"
    /\ LET nm == ResolveName(line) IN
       \E exists \in isProjectExists(nm) :
          IF exists
          THEN /\ output' = "A project with the name already exists"
               /\ name' = nm
               /\ blankSeen' = (blankSeen \/ IsBlank(line))
               /\ pc' = "prompt"
               /\ UNCHANGED <<projectName, turns>>
          ELSE IF ContainsAny(nm, invalidChars)
          THEN /\ output' = "Project name contains invalid characters"
               /\ name' = nm
               /\ blankSeen' = (blankSeen \/ IsBlank(line))
               /\ pc' = "prompt"
               /\ UNCHANGED <<projectName, turns>>
          ELSE /\ projectName' = nm
               /\ name' = <<>>
               /\ blankSeen' = FALSE
               /\ turns' = 0
               /\ pc' = "cp_ensure"
               /\ UNCHANGED output
    /\ line' = <<>>
    /\ UNCHANGED <<variant, isWindows, skipSetup, cwd, dirs, files,
                   projectPath, packageJSON, err, fatalMsg, setupRan, ops>>

\* the rest of promptProjectName in the simple variant: no loop, no checks
SimplePromptResolve ==
    /\ variant = "simple"
    /\ pc = "prompt_check"
    /\ projectName' = ResolveName(line)
    /\ pc' = "s_abs"
    /\ line' = <<>>
    /\ turns' = 0
    /\ UNCHANGED <<variant, isWindows, skipSetup, cwd, dirs, files, name,
                   output, blankSeen, projectPath, packageJSON, err, fatalMsg,
                   setupRan, ops>>

(************************* createProject (main.go) *************************)
config == <<variant, isWindows, skipSetup>>
promptVars == <<line, name, output, turns, blankSeen, projectName>>

Fail(msg) ==
    /\ pc' = "fatal"
    /\ err' = msg
    /\ fatalMsg' = "Failed to create project"

Proceed(next) ==
    /\ pc' = next
    /\ UNCHANGED <<err, fatalMsg>>

\* os.Chdir succeeds only into a directory that exists
ChdirOutcomes(p) == IF p \in dirs THEN BOOLEAN ELSE {FALSE}

\* what a successful clone into directory target can create, as [dirs, files];
\* of the template's files only those the variant touches later are tracked
CloneOutcomes(target) ==
    LET newDirs == dirs \cup Prefixes(target) \cup {target \o <<dotGit>>} IN
    IF variant = "main"
    THEN {[dirs |-> newDirs,
           files |-> LET f1 == IF m = NoFile THEN files
                               ELSE WriteTo(files, <<target, "package.json">>, m)
                     IN IF lock
                        THEN WriteTo(f1, <<target, "package-lock.json">>, <<"lock">>)
                        ELSE f1]
             : m \in Manifests \cup {NoFile}, lock \in BOOLEAN}
    ELSE {[dirs |-> newDirs,
           files |-> IF e = NoFile THEN files
                     ELSE WriteTo(files, <<target, ".env.local">>, e)]
             : e \in EnvFiles \cup {NoFile}}

\* gh repo clone cannot succeed into a directory that is there already
CloneResults(target) == IF target \in dirs THEN {FALSE} ELSE BOOLEAN

\* step 1
CpEnsureWebappsDir ==
    EnsureWebappsDir("cp_ensure", "cp_verify", "Failed to create project")

\* step 2 with the result of the check ignored
CpVerifyAbsent_skipped ==
    /\ variant = "main"
    /\ pc = "cp_verify"
    /\ \E exists \in isProjectExists(projectName) :
          ops' = Append(ops, Sys("stat", Abs(cwd, ProjectPathMain(projectName)),
                                 ~exists))
    /\ Proceed("cp_chdir_webapps")
    /\ UNCHANGED <<config, promptVars, cwd, dirs, files, projectPath,
                   packageJSON, setupRan>>

\* step 2
CpVerifyAbsent ==
    /\ variant = "main"
    /\ pc = "cp_verify"
    /\ \E exists \in isProjectExists(projectName) :
          /\ ops' = Append(ops, Sys("stat", Abs(cwd, ProjectPathMain(projectName)),
                                    ~exists))
          /\ IF exists
             THEN Fail("directory already exists")
             ELSE Proceed("cp_chdir_webapps")
    /\ UNCHANGED <<config, promptVars, cwd, dirs, files, projectPath, packageJSON, setupRan>>

\* step 3
CpChdirWebapps ==
    /\ variant = "main"
    /\ pc = "cp_chdir_webapps"
    /\ LET p == Abs(cwd, fullWebappsPath) IN
       \E ok \in ChdirOutcomes(p) :
          /\ ops' = Append(ops, Sys("chdir", p, ok))
          /\ IF ok
             THEN cwd' = p /\ Proceed("cp_clone")
             ELSE cwd' = cwd /\ Fail("failed to change to webapps directory")
    /\ UNCHANGED <<config, promptVars, dirs, files, projectPath, packageJSON, setupRan>>

\* step 4
CpClone ==
    /\ variant = "main"
    /\ pc = "cp_clone"
    /\ LET target == Abs(cwd, projectName) IN
       \E ok \in CloneResults(target) :
          /\ ops' = Append(ops, Exec(getGHCommand, <<"repo", "clone", repoURL>>, ok))
          /\ IF ok
             THEN /\ \E o \in CloneOutcomes(target) :
                        dirs' = o.dirs /\ files' = o.files
                  /\ Proceed("cp_chdir_project")
             ELSE /\ UNCHANGED <<dirs, files>>
                  /\ Fail("failed to clone repository")
    /\ UNCHANGED <<config, promptVars, cwd, projectPath, packageJSON, setupRan>>

\* step 5
CpChdirProject ==
    /\ variant = "main"
    /\ pc = "cp_chdir_project"
    /\ LET p == Abs(cwd, ProjectPathMain(projectName)) IN
       \E ok \in ChdirOutcomes(p) :
          /\ ops' = Append(ops, Sys("chdir", p, ok))
          /\ IF ok
             THEN cwd' = p /\ Proceed("cp_rm_git")
             ELSE cwd' = cwd /\ Fail("failed to change to project directory")
    /\ UNCHANGED <<config, promptVars, dirs, files, projectPath, packageJSON, setupRan>>

\* os.RemoveAll(p): the directory and everything below it
DirsWithout(p) == {d \in dirs : ~IsUnder(d, p)}

FilesWithout(p) == RemoveKeys(files, {k \in DOMAIN files : IsUnder(k[1], p)})

RemoveAllStep(at, p, next, msg) ==
    /\ variant = "main"
    /\ pc = at
    /\ \E ok \in BOOLEAN :
          /\ ops' = Append(ops, Sys("removeall", p, ok))
          /\ IF ok
             THEN /\ dirs' = DirsWithout(p)
                  /\ files' = FilesWithout(p)
                  /\ Proceed(next)
             ELSE /\ UNCHANGED <<dirs, files>>
                  /\ Fail(msg)
    /\ UNCHANGED <<config, promptVars, cwd, projectPath, packageJSON, setupRan>>

\* a git or npm command of createProject run in the project directory;
\* made is the set of directories and wrote the file it creates on success
CommandStep(at, cmd, args, next, msg, made, wrote) ==
    /\ variant = "main"
    /\ pc = at
    /\ \E ok \in BOOLEAN :
          /\ ops' = Append(ops, Exec(cmd, args, ok))
          /\ IF ok
             THEN /\ dirs' = dirs \cup made
                  /\ files' = IF wrote = "" THEN files
                              ELSE WriteTo(files, <<cwd, wrote>>, <<"lock">>)
                  /\ Proceed(next)
             ELSE /\ UNCHANGED <<dirs, files>>
                  /\ Fail(msg)
    /\ UNCHANGED <<config, promptVars, cwd, projectPath, packageJSON, setupRan>>

\* step 6
CpRemoveGit ==
    RemoveAllStep("cp_rm_git", Abs(cwd, dotGit), "cp_git_init",
                  "failed to remove existing .git directory")

\* step 7 with the error of git init dropped
CpGitInit_continues ==
    /\ variant = "main"
    /\ pc = "cp_git_init"
    /\ \E ok \in BOOLEAN :
          /\ ops' = Append(ops, Exec("git", <<"init">>, ok))
          /\ dirs' = IF ok THEN dirs \cup {Abs(cwd, dotGit)} ELSE dirs
    /\ Proceed("cp_git_add")
    /\ UNCHANGED <<config, promptVars, cwd, files, projectPath, packageJSON,
                   setupRan>>

\* step 7
CpGitInit ==
    CommandStep("cp_git_init", "git", <<"init">>, "cp_git_add",
                "failed to initialize git repository", {Abs(cwd, dotGit)}, "")

\* step 8
CpGitAdd ==
    CommandStep("cp_git_add", "git", <<"add", ".">>, "cp_git_commit",
                "failed to stage files", {}, "")

CpGitCommit ==
    CommandStep("cp_git_commit", "git", <<"commit", "-m", "Initial commit">>,
                "cp_rm_node_modules", "failed to create initial commit", {}, "")

\* step 9
CpRemoveNodeModules ==
    RemoveAllStep("cp_rm_node_modules", Abs(cwd, nodeModules), "cp_rm_lock",
                  "failed to remove node_modules")

\* errors os.Remove can return for a file
RemoveErrs(key) == IF key \in DOMAIN files THEN {"nil", "EACCES"} ELSE {"ENOENT"}

CpRemoveLock ==
    /\ variant = "main"
    /\ pc = "cp_rm_lock"
    /\ LET key == <<cwd, "package-lock.json">> IN
       \E e \in RemoveErrs(key) :
          /\ ops' = Append(ops, Sys("remove", cwd, e = "nil" \/ IsNotExist(e)))
          /\ files' = IF e = "nil" THEN RemoveKeys(files, {key}) ELSE files
          /\ IF e # "nil" /\ ~IsNotExist(e)
             THEN Fail("failed to remove package-lock.json")
             ELSE Proceed("cp_npm_install")
    /\ UNCHANGED <<config, promptVars, cwd, dirs, projectPath, packageJSON, setupRan>>

\* step 10
CpNpmInstall ==
    CommandStep("cp_npm_install", getNPMCommand, <<"install">>, "cp_read_manifest",
                "failed to install dependencies", {Abs(cwd, nodeModules)},
                "package-lock.json")

\* step 11: read, back up, substitute, write back
ReadOutcomes(key) == IF key \in DOMAIN files THEN BOOLEAN ELSE {FALSE}

CpReadManifest ==
    /\ variant = "main"
    /\ pc = "cp_read_manifest"
    /\ LET key == <<cwd, "package.json">> IN
       \E ok \in ReadOutcomes(key) :
          /\ ops' = Append(ops, Sys("readfile", cwd, ok))
          /\ IF ok
             THEN packageJSON' = files[key] /\ Proceed("cp_write_backup")
             ELSE UNCHANGED packageJSON /\ Fail("failed to read package.json")
    /\ UNCHANGED <<config, promptVars, cwd, dirs, files, projectPath, setupRan>>

\* os.WriteFile(key, data): all of data on success, see PartialWrites on failure
WriteFileStep(at, fname, data, next, msg) ==
    /\ variant = "main"
    /\ pc = at
    /\ LET key == <<cwd, fname>> IN
       \E ok \in BOOLEAN :
          /\ ops' = Append(ops, Sys("writefile", cwd, ok))
          /\ IF ok
             THEN files' = WriteTo(files, key, data) /\ Proceed(next)
             ELSE /\ \E left \in PartialWrites(FileContent(cwd, fname), data) :
                        files' = IF left = NoFile THEN files
                                 ELSE WriteTo(files, key, left)
                  /\ Fail(msg)
    /\ UNCHANGED <<config, promptVars, cwd, dirs, projectPath, packageJSON, setupRan>>

CpWriteBackup ==
    WriteFileStep("cp_write_backup", "package.json.backup", packageJSON,
                  "cp_write_manifest", "failed to create package.json backup")

CpWriteManifest ==
    WriteFileStep("cp_write_manifest", "package.json",
                  Replace(packageJSON, oldPredev, newPredev),
                  "done", "failed to write modified package.json")

(********************* createProject (simple variant) **********************)
\* filepath.Abs(projectName): fails only when the working directory cannot
\* be read
SAbs ==
    /\ variant = "simple"
    /\ pc = "s_abs"
    /\ \E ok \in BOOLEAN :
          IF ok
          THEN projectPath' = Abs(cwd, projectName) /\ Proceed("s_verify")
          ELSE UNCHANGED projectPath /\ Fail("failed to get absolute path")
    /\ UNCHANGED <<config, promptVars, cwd, dirs, files, packageJSON, setupRan,
                   ops>>

\* the os.Stat check of the resolved path
SVerifyAbsent ==
    /\ variant = "simple"
    /\ pc = "s_verify"
    /\ \E e \in StatErrs(projectPath) :
          /\ ops' = Append(ops, Sys("stat", projectPath, IsNotExist(e)))
          /\ IF ~IsNotExist(e)
             THEN Fail("directory already exists")
             ELSE Proceed("s_clone")
    /\ UNCHANGED <<config, promptVars, cwd, dirs, files, projectPath,
                   packageJSON, setupRan>>

SClone ==
    /\ variant = "simple"
    /\ pc = "s_clone"
    /\ LET target == Abs(cwd, projectName) IN
       \E ok \in CloneResults(target) :
          /\ ops' = Append(ops, Exec(getGHCommand, <<"repo", "clone", repoURL>>, ok))
          /\ IF ok
             THEN /\ \E o \in CloneOutcomes(target) :
                        dirs' = o.dirs /\ files' = o.files
                  /\ Proceed("s_chdir")
             ELSE /\ UNCHANGED <<dirs, files>>
                  /\ Fail("failed to clone repository")
    /\ UNCHANGED <<config, promptVars, cwd, projectPath, packageJSON, setupRan>>

SChdirProject ==
    /\ variant = "simple"
    /\ pc = "s_chdir"
    /\ \E ok \in ChdirOutcomes(projectPath) :
          /\ ops' = Append(ops, Sys("chdir", projectPath, ok))
          /\ IF ok
             THEN cwd' = projectPath /\ Proceed("s_install")
             ELSE cwd' = cwd /\ Fail("failed to change to project directory")
    /\ UNCHANGED <<config, promptVars, dirs, files, projectPath, packageJSON,
                   setupRan>>

SNpmInstall ==
    /\ variant = "simple"
    /\ pc = "s_install"
    /\ \E ok \in BOOLEAN :
          /\ ops' = Append(ops, Exec(getNPMCommand, <<"install">>, ok))
          /\ IF ok
             THEN /\ dirs' = dirs \cup {Abs(cwd, nodeModules)}
                  /\ files' = WriteTo(files, <<cwd, "package-lock.json">>, <<"lock">>)
                  /\ Proceed("check_setup")
             ELSE /\ UNCHANGED <<dirs, files>>
                  /\ Fail("failed to install dependencies")
    /\ UNCHANGED <<config, promptVars, cwd, projectPath, packageJSON, setupRan>>

(***************************** checkSetupScript ****************************)
\* the scan of the opened file: some line contains the marker
MarkerFound(content) ==
    LET lines == ScanLines(content, <<>>) IN
    \E i \in 1..Len(lines) : Contains(lines[i], setupMarker)

\* checkSetupScript(projectName), as main calls it: the file .env.local in
\* the directory that the path string projectName names, which os.Open
\* resolves in the working directory
CheckSetupScript ==
    /\ variant = "simple"
    /\ pc = "check_setup"
    /\ LET dir == Abs(cwd, projectName) IN
       \E ok \in ReadOutcomes(<<dir, ".env.local">>) :
          /\ ops' = Append(ops, Sys("open", dir, ok))
          /\ setupRan' = IF ok /\ MarkerFound(files[<<dir, ".env.local">>])
                         THEN "true" ELSE "false"
    /\ pc' = "dev"
    /\ UNCHANGED <<config, promptVars, cwd, dirs, files, projectPath,
                   packageJSON, err, fatalMsg>>

(****************************** startDevServer *****************************)
StartDevServer ==
    /\ variant = "simple"
    /\ pc \in {"dev", "dev_skip"}
    /\ \E ok \in BOOLEAN :
          /\ ops' = Append(ops, Exec(getNPMCommand, <<"run", "dev">>, ok))
          /\ IF ok
             THEN pc' = "done" /\ UNCHANGED <<err, fatalMsg>>
             ELSE /\ pc' = "fatal"
                  /\ err' = "npm run dev failed"
                  /\ fatalMsg' = "Failed to start development server"
    /\ UNCHANGED <<config, promptVars, cwd, dirs, files, projectPath,
                   packageJSON, setupRan>>

NextMain ==
    \/ CheckGit \/ CheckGH \/ CheckNPM
    \/ MainEnsureWebappsDir
    \/ PromptRead \/ PromptValidate
    \/ CpEnsureWebappsDir \/ CpVerifyAbsent \/ CpChdirWebapps \/ CpClone
    \/ CpChdirProject \/ CpRemoveGit \/ CpGitInit \/ CpGitAdd \/ CpGitCommit
    \/ CpRemoveNodeModules \/ CpRemoveLock \/ CpNpmInstall
    \/ CpReadManifest \/ CpWriteBackup \/ CpWriteManifest

NextSimple ==
    \/ SimplePromptResolve
    \/ SAbs \/ SVerifyAbsent \/ SClone \/ SChdirProject \/ SNpmInstall
    \/ CheckSetupScript
    \/ StartDevServer

Next == NextMain \/ NextSimple

Spec == Init /\ [][Next]_vars

(***************************************************************************)
(*                              Properties                                 *)
(***************************************************************************)
Terminated == pc \in {"done", "fatal"}

ProbePcs == {"check_git", "check_gh", "check_npm"}

ProbePcs_At(i) == <<"check_git", "check_gh", "check_npm">>[i]

IsProbe(r, tool) ==
    r.call = "exec" /\ r.cmd = tool /\ r.args = <<"--version">>

\* the operations createProject of main.go has made so far: everything after
\* the three probes and the MkdirAll of main
CreateOps == SubSeq(ops, 5, Len(ops))

InCreate ==
    /\ variant = "main"
    /\ \/ pc = "done"
       \/ pc = "fatal" /\ fatalMsg = "Failed to create project"
       \/ pc \notin ProbePcs \cup {"ensure", "prompt", "prompt_check", "fatal", "done"}

\* the operations of the eleven steps in their order, with the message of
\* the error each returns and the position from which it is made
StepTable ==
    <<[step |-> 1, at |-> "cp_ensure", call |-> "mkdirall", cmd |-> "",
       args |-> <<>>, msg |-> "failed to create webapps directory"],
      [step |-> 2, at |-> "cp_verify", call |-> "stat", cmd |-> "",
       args |-> <<>>, msg |-> "directory already exists"],
      [step |-> 3, at |-> "cp_chdir_webapps", call |-> "chdir", cmd |-> "",
       args |-> <<>>, msg |-> "failed to change to webapps directory"],
      [step |-> 4, at |-> "cp_clone", call |-> "exec",
       cmd |-> IF isWindows THEN "gh.exe" ELSE "gh",
       args |-> <<"repo", "clone", "https://github.com/AndrewDonelson/my-app">>,
       msg |-> "failed to clone repository"],
      [step |-> 5, at |-> "cp_chdir_project", call |-> "chdir", cmd |-> "",
       args |-> <<>>, msg |-> "failed to change to project directory"],
      [step |-> 6, at |-> "cp_rm_git", call |-> "removeall", cmd |-> "",
       args |-> <<>>, msg |-> "failed to remove existing .git directory"],
      [step |-> 7, at |-> "cp_git_init", call |-> "exec", cmd |-> "git",
       args |-> <<"init">>, msg |-> "failed to initialize git repository"],
      [step |-> 8, at |-> "cp_git_add", call |-> "exec", cmd |-> "git",
       args |-> <<"add", ".">>, msg |-> "failed to stage files"],
      [step |-> 8, at |-> "cp_git_commit", call |-> "exec", cmd |-> "git",
       args |-> <<"commit", "-m", "Initial commit">>,
       msg |-> "failed to create initial commit"],
      [step |-> 9, at |-> "cp_rm_node_modules", call |-> "removeall", cmd |-> "",
       args |-> <<>>, msg |-> "failed to remove node_modules"],
      [step |-> 9, at |-> "cp_rm_lock", call |-> "remove", cmd |-> "",
       args |-> <<>>, msg |-> "failed to remove package-lock.json"],
      [step |-> 10, at |-> "cp_npm_install", call |-> "exec",
       cmd |-> IF isWindows THEN "npm.cmd" ELSE "npm",
       args |-> <<"install">>, msg |-> "failed to install dependencies"],
      [step |-> 11, at |-> "cp_read_manifest", call |-> "readfile", cmd |-> "",
       args |-> <<>>, msg |-> "failed to read package.json"],
      [step |-> 11, at |-> "cp_write_backup", call |-> "writefile", cmd |-> "",
       args |-> <<>>, msg |-> "failed to create package.json backup"],
      [step |-> 11, at |-> "cp_write_manifest", call |-> "writefile", cmd |-> "",
       args |-> <<>>, msg |-> "failed to write modified package.json"]>>

\* C1: in createProject of main.go the operations of the eleven steps are
\* made in the fixed order; an operation is made only after every earlier
\* one succeeded; when one fails nothing later is made and createProject
\* returns the error that names the failed step; success means all were made.
C1_StepsInOrderStopAtFirstFailure ==
    InCreate =>
        LET c == CreateOps
            n == Len(CreateOps)
        IN
        /\ n <= Len(StepTable)
        /\ \A i \in 1..n :
              /\ c[i].call = StepTable[i].call
              /\ c[i].cmd = StepTable[i].cmd
              /\ c[i].args = StepTable[i].args
              /\ (i < n => c[i].ok)
        /\ (pc = "fatal" => n >= 1 /\ ~c[n].ok /\ err = StepTable[n].msg)
        /\ (pc = "done" => n = Len(StepTable) /\ c[n].ok /\ err = "")
        /\ (~Terminated =>
               /\ n < Len(StepTable)
               /\ (n >= 1 => c[n].ok)
               /\ pc = StepTable[n + 1].at
               /\ err = "")

\* C1 witness: the commit of step 8 failed after steps 1-7 and git add
C1_Witness ==
    /\ InCreate
    /\ pc = "fatal"
    /\ err = "failed to create initial commit"
    /\ Len(CreateOps) = 9

HasInvalidChar(s) ==
    \E i \in 1..Len(s) : s[i] \in {"\\", "/", ":", "*", "?", "\"", "<", ">", "|"}

PromptMessages ==
    {"A project with the name already exists",
     "Project name contains invalid characters"}

\* C2: the name promptProjectName of main.go returns, end of input
\* included, has none of the characters \ / : * ? " < > | , and a line
\* read that has one is rejected with a message and the prompt comes again.
C2_NoInvalidCharacterReturned ==
    /\ [](variant = "main" /\ pc \notin ProbePcs \cup {"ensure", "prompt", "prompt_check"}
            /\ fatalMsg \notin {"Prerequisite check failed",
                                "Failed to setup projects directory"}
          => projectName # <<>> /\ ~HasInvalidChar(projectName))
    /\ [][variant = "main" /\ pc = "prompt_check" /\ HasInvalidChar(line)
            => /\ pc' = "prompt"
               /\ output' \in PromptMessages
               /\ projectName' = projectName]_vars

\* C2 witness: a name with an invalid character whose path does not exist
\* was rejected for its characters
C2_Witness ==
    /\ variant = "main"
    /\ pc = "prompt"
    /\ output = "Project name contains invalid characters"
    /\ HasInvalidChar(name)

\* the directory the clone of the main variant creates for name n, seen
\* from the working directory main starts in
WebappsTarget(n) == Abs(Abs(cwd, fullWebappsPath), n)

\* C3: at the moment promptProjectName of main.go returns a name, no
\* directory of that name exists under the webapps parent.
C3_ReturnedNameIsUnused ==
    variant = "main" /\ pc = "cp_ensure" => WebappsTarget(projectName) \notin dirs

IsBlankLine(s) == \A i \in 1..Len(s) : s[i] \in {" ", "\t", "\n", "\r"}

\* C4 as stated: once an empty or whitespace-only line was entered,
\* promptProjectName returns the default name, whatever the state of the
\* target directory and whatever is entered afterwards.  Stated here for
\* the state of the target directory that matters: my-new-app exists.
C4_BlankAlwaysYieldsDefault ==
    [][/\ (pc \in {"prompt", "prompt_check"})
       /\ pc' = AfterPrompt
       /\ (blankSeen \/ (pc = "prompt_check" /\ IsBlankLine(line)))
       /\ (variant = "main" => WebappsTarget(defaultProjectName) \in dirs)
       => projectName' = defaultProjectName]_vars

\* C4 amended: an empty or whitespace-only line stands for the default name
\* my-new-app.  The simple variant returns it at once.  The main variant
\* returns it only when the existence check finds no directory of that
\* name; when the directory exists the default is rejected with the
\* "already exists" message and the prompt comes again.
C4_BlankStandsForDefault ==
    [][pc = "prompt_check" /\ IsBlankLine(line)
       => \/ /\ pc' = AfterPrompt
             /\ projectName' = defaultProjectName
             /\ (variant = "main" => WebappsTarget(defaultProjectName) \notin dirs)
          \/ /\ variant = "main"
             /\ pc' = "prompt"
             /\ name' = defaultProjectName
             /\ output' = "A project with the name already exists"
             /\ projectName' = projectName]_vars

\* C4 witness: the main variant has just rejected a blank line because the
\* directory my-new-app exists
C4_Witness ==
    /\ variant = "main"
    /\ pc = "prompt"
    /\ blankSeen
    /\ name = defaultProjectName
    /\ WebappsTarget(defaultProjectName) \in dirs

\* after is before with its first predev line replaced by the placeholder
\* and every other chunk kept; the same as before when there is no such line
PatchedFrom(before, after) ==
    LET occ == {i \in 1..(Len(before) - 1) :
                   /\ before[i] = "\"predev\": "
                   /\ before[i + 1] = oldPredev[2]}
    IN
    IF occ = {} THEN after = before
    ELSE LET first == CHOOSE i \in occ : \A j \in occ : i <= j IN
         /\ Len(after) = Len(before)
         /\ \A j \in 1..Len(before) :
               after[j] = IF j = first + 1
                          THEN "\"echo Skipping predev script for initial setup\""
                          ELSE before[j]

ManifestKey == <<cwd, "package.json">>

BackupKey == <<cwd, "package.json.backup">>

\* C5: when step 11 of createProject completes, package.json.backup holds
\* what package.json held before the step and package.json holds that
\* content with the first predev line replaced, or the same content when
\* there is no such line; the backup is written first and the write of the
\* backup, failed or not, leaves package.json as it was.
C5_ManifestPatchedAndBackedUp ==
    /\ [](variant = "main" /\ pc = "done"
            => /\ FileContent(cwd, "package.json.backup") = packageJSON
               /\ PatchedFrom(packageJSON, FileContent(cwd, "package.json")))
    /\ [][pc = "cp_read_manifest" /\ pc' = "cp_write_backup"
            => packageJSON' = files[ManifestKey] /\ files' = files]_vars
    /\ [][pc = "cp_write_backup"
            => /\ ManifestKey \in DOMAIN files'
               /\ files'[ManifestKey] = packageJSON
               /\ (pc' = "cp_write_manifest" => files'[BackupKey] = packageJSON)]_vars

\* C5 witness: a manifest with two predev lines was patched
C5_Witness ==
    /\ variant = "main"
    /\ pc = "done"
    /\ Len(packageJSON) = 4
    /\ packageJSON[1] = oldPredev[1] /\ packageJSON[2] = oldPredev[2]
    /\ packageJSON[3] = oldPredev[1] /\ packageJSON[4] = oldPredev[2]
    /\ FileContent(cwd, "package.json") # packageJSON

ProbeTools ==
    <<"git", IF isWindows THEN "gh.exe" ELSE "gh",
      IF isWindows THEN "npm.cmd" ELSE "npm">>

ProbeMessages ==
    <<"git is not installed or not in PATH",
      "GitHub CLI (gh) is not installed or not in PATH",
      "npm is not installed or not in PATH">>

\* C6: checkPrerequisites probes git, the GitHub CLI and npm in this order;
\* the first failed probe ends it with the error naming that tool, no
\* further probe is made and main terminates with nothing created, no
\* prompt shown and no other command run; main goes on only after three
\* successful probes.
C6_PrerequisitesFailFast ==
    /\ [](/\ \A i \in 1..Len(ops) : i <= 3 => IsProbe(ops[i], ProbeTools[i])
          /\ \A i \in 1..Len(ops) :
                i <= 3 /\ ~ops[i].ok
                => /\ Len(ops) = i
                   /\ pc = "fatal"
                   /\ err = ProbeMessages[i]
                   /\ fatalMsg = "Prerequisite check failed"
                   /\ projectName = <<>>
                   /\ output = ""
          /\ (pc \in ProbePcs => Len(ops) < 3 /\ pc = ProbePcs_At(Len(ops) + 1))
          /\ (pc \notin ProbePcs /\ fatalMsg # "Prerequisite check failed"
                => Len(ops) >= 3 /\ \A i \in 1..3 : ops[i].ok))
    /\ [][(pc \in ProbePcs) => (UNCHANGED <<cwd, dirs, files, line, projectName>>)]_vars
    /\ [][pc # "fatal"]_vars

\* C6 witness: git answered, the GitHub CLI did not
C6_Witness ==
    /\ pc = "fatal"
    /\ Len(ops) = 2
    /\ ops[1].ok
    /\ ~ops[2].ok
    /\ err = "GitHub CLI (gh) is not installed or not in PATH"

IsRunDev(r) ==
    /\ r.call = "exec"
    /\ r.cmd = (IF isWindows THEN "npm.cmd" ELSE "npm")
    /\ r.args = <<"run", "dev">>

\* C7: with --skip-setup set the run never prompts, clones, installs or
\* changes the working directory; once the prerequisites are met the next
\* and only further command is npm run dev, after which the process ends,
\* fatally when that command fails.
C7_SkipSetupGoesStraightToDevServer ==
    /\ [](skipSetup
            => /\ pc \in ProbePcs \cup {"dev_skip", "done", "fatal"}
               /\ projectName = <<>>
               /\ Len(ops) <= 4
               /\ \A i \in 1..Len(ops) :
                     IF i <= 3 THEN IsProbe(ops[i], ProbeTools[i])
                     ELSE IsRunDev(ops[i])
               /\ (Len(ops) = 4 => Terminated /\ \A i \in 1..3 : ops[i].ok)
               /\ (pc = "done" => Len(ops) = 4 /\ ops[4].ok)
               /\ (pc = "fatal" /\ Len(ops) = 4
                     => ~ops[4].ok /\ fatalMsg = "Failed to start development server")
               /\ (~Terminated /\ Len(ops) = 3 => pc = "dev_skip"))
    /\ [][skipSetup => (UNCHANGED <<cwd, dirs, files>>)]_vars
    /\ [][skipSetup /\ Terminated => FALSE]_vars

\* C7 witness: a skip-setup run that launched the dev server and ended
C7_Witness ==
    /\ skipSetup
    /\ pc = "done"
    /\ Len(ops) = 4
    /\ IsRunDev(ops[4])

\* the directory the clone is going to create, at the verification step
TargetAtVerify ==
    IF variant = "main" THEN WebappsTarget(projectName) ELSE Abs(cwd, projectName)

\* C8: when the target directory exists at the verification step of
\* createProject (either variant), createProject returns "directory already
\* exists" and the process ends; until then it has only probed the tools,
\* ensured the webapps directory and looked at the target: no change of
\* working directory, no clone, install or removal, and the directories and
\* files are as they were when createProject was called.
C8_ExistingTargetIsLeftAlone ==
    /\ [][(pc \in {"cp_verify", "s_verify"}) /\ TargetAtVerify \in dirs
            => /\ pc' = "fatal"
               /\ err' = "directory already exists"
               /\ (UNCHANGED <<cwd, dirs, files>>)]_vars
    /\ [][(pc \in {"cp_ensure", "s_abs"}) /\ TargetAtVerify \in dirs
            => (UNCHANGED <<cwd, dirs, files>>)]_vars
    /\ [](pc = "fatal" /\ err = "directory already exists"
            => \A i \in 1..Len(ops) :
                  \/ i <= 3 /\ IsProbe(ops[i], ProbeTools[i])
                  \/ ops[i].call \in {"mkdirall", "stat"})
    /\ [][pc = "fatal" => FALSE]_vars

\* C8 witness: createProject of main.go found the directory of the returned
\* name in place and gave up
C8_Witness ==
    /\ variant = "main"
    /\ pc = "fatal"
    /\ err = "directory already exists"
    /\ WebappsTarget(projectName) \in dirs
    /\ ops[Len(ops)].call = "stat"

\* C9: the setup-marker check of main (simple variant) opens .env.local of
\* the project directory createProject has just created and says true
\* exactly when some line of that file contains SETUP_SCRIPT_RAN=1.
C9_MarkerReadFromCreatedProject ==
    variant = "simple" /\ setupRan # "unset"
    => LET made == projectPath
           content == IF <<made, ".env.local">> \in DOMAIN files
                      THEN files[<<made, ".env.local">>] ELSE <<>>
       IN
       /\ \E i \in 1..Len(ops) : ops[i].call = "open" /\ ops[i].path = made
       /\ (setupRan = "true") <=>
             (\E i \in 1..(Len(content) - 1) :
                 content[i] = "SETUP_SCRIPT_RAN=" /\ content[i + 1] = "1")

\* C10: in createProject of main.go the directory step 5 changes into is
\* the directory the clone of step 4 created, on every platform and from
\* every initial working directory.
C10_ChdirIntoClonedDirectory ==
    InCreate /\ Len(CreateOps) >= 5
    => CreateOps[5].path = Abs(CreateOps[4].path, projectName)

====
